---- MODULE Spec2Model ----
(***************************************************************************)
(* Model of the quote display firmware (src/LaskaDisplay.ino): the wake /  *)
(* sleep state machine of setup(), the no-repeat rotation kept in NVS and  *)
(* RTC memory, and the two streaming passes over /quotes.json.             *)
(*                                                                         *)
(* Time is in seconds, battery voltage in millivolts.  The catalog file is *)
(* modelled after its "[" as a sequence of tokens: a JSON object (with the *)
(* value its "id" member converts to, 0 when missing, and whether the      *)
(* whole object fits the 2048-byte document of the fetch pass), a chunk of *)
(* malformed text, a comma, a closing bracket, white space.                *)
(***************************************************************************)
EXTENDS Integers, Sequences, FiniteSets, TLC

\* ---------------------------------------------------------------- constants

REFRESH_INTERVAL == 24 * 60 * 60
MinRemainingSec == 60
BAT_CRITICAL == 3200
BAT_EMPTY == 3000
BatNotConnected == 1000
NoCarryOver == -1

\* ------------------------------------------------------------------- bounds

MaxDays == 2
MaxCount == 4
MaxBuilds == 2
MaxBody == 5
MaxShown == 3
MaxTime == MaxDays * REFRESH_INTERVAL

\* --------------------------------------------------------- the catalog file

Obj(id) == [t |-> "obj", id |-> id, fit |-> TRUE]
Big(id) == [t |-> "obj", id |-> id, fit |-> FALSE]
Bad == [t |-> "bad", id |-> 0, fit |-> FALSE]
Comma == [t |-> ",", id |-> 0, fit |-> FALSE]
Close == [t |-> "]", id |-> 0, fit |-> FALSE]
Ws == [t |-> "ws", id |-> 0, fit |-> FALSE]

\* A file: whether SD.open finds it, whether it holds the "quotes" key and a
\* "[" after it, and the tokens after that "[".
File(key, arr, body) == [exists |-> TRUE, key |-> key, arr |-> arr, body |-> body]
NoFile == [exists |-> FALSE, key |-> FALSE, arr |-> FALSE, body |-> <<>>]
Quotes(body) == File(TRUE, TRUE, body)

\* deserializeJson first skips white space.
RECURSIVE SkipSpaces(_, _)
SkipSpaces(body, i) ==
    IF i <= Len(body) /\ body[i].t = "ws" THEN SkipSpaces(body, i + 1) ELSE i

\* scanQuoteIds without the test "id != 0".
RECURSIVE ScanLoopKeepsZero(_, _, _)
RECURSIVE ScanAdvanceKeepsZero(_, _, _)
ScanLoopKeepsZero(body, i, ids) ==
    IF i > Len(body)
    THEN [ok |-> Len(ids) > 0, ids |-> ids, handle |-> "closed"]
    ELSE LET j == SkipSpaces(body, i) IN
         IF j > Len(body) \/ body[j].t # "obj"
         THEN [ok |-> Len(ids) > 0, ids |-> ids, handle |-> "closed"]
         ELSE ScanAdvanceKeepsZero(body, j + 1, Append(ids, body[j].id))

ScanAdvanceKeepsZero(body, k, ids) ==
    IF k > Len(body) THEN ScanLoopKeepsZero(body, k, ids)
    ELSE IF body[k].t = "," THEN ScanLoopKeepsZero(body, k + 1, ids)
    ELSE IF body[k].t = "]" THEN [ok |-> TRUE, ids |-> ids, handle |-> "closed"]
    ELSE ScanAdvanceKeepsZero(body, k + 1, ids)

\* scanQuoteIds going on to the next element after a decode error.
RECURSIVE ScanLoopSkips(_, _, _)
RECURSIVE ScanAdvanceSkips(_, _, _)
ScanLoopSkips(body, i, ids) ==
    IF i > Len(body)
    THEN [ok |-> Len(ids) > 0, ids |-> ids, handle |-> "closed"]
    ELSE LET j == SkipSpaces(body, i) IN
         IF j > Len(body)
         THEN [ok |-> Len(ids) > 0, ids |-> ids, handle |-> "closed"]
         ELSE ScanAdvanceSkips(body, j + 1,
                               IF body[j].t = "obj" /\ body[j].id # 0
                               THEN Append(ids, body[j].id) ELSE ids)

ScanAdvanceSkips(body, k, ids) ==
    IF k > Len(body) THEN ScanLoopSkips(body, k, ids)
    ELSE IF body[k].t = "," THEN ScanLoopSkips(body, k + 1, ids)
    ELSE IF body[k].t = "]" THEN [ok |-> TRUE, ids |-> ids, handle |-> "closed"]
    ELSE ScanAdvanceSkips(body, k + 1, ids)

\* scanQuoteIds, from the position after "[": the outer loop (ScanLoop) and
\* the loop that advances to the next object (ScanAdvance).  The result is
\* the return value, allQuoteIds, and the File object at the return
\* statement: "closed" after file.close(), "open" when the function returns
\* without it, "none" when SD.open gave no file.
RECURSIVE ScanLoop(_, _, _)
RECURSIVE ScanAdvance(_, _, _)
ScanLoop(body, i, ids) ==
    IF i > Len(body)
    THEN [ok |-> Len(ids) > 0, ids |-> ids, handle |-> "closed"]
    ELSE LET j == SkipSpaces(body, i) IN
         IF j > Len(body) \/ body[j].t # "obj"
         THEN \* any DeserializationError: break
              [ok |-> Len(ids) > 0, ids |-> ids, handle |-> "closed"]
         ELSE ScanAdvance(body, j + 1,
                          IF body[j].id # 0 THEN Append(ids, body[j].id) ELSE ids)

ScanAdvance(body, k, ids) ==
    IF k > Len(body) THEN ScanLoop(body, k, ids)
    ELSE IF body[k].t = "," THEN ScanLoop(body, k + 1, ids)
    ELSE IF body[k].t = "]" THEN [ok |-> TRUE, ids |-> ids, handle |-> "closed"]
    ELSE ScanAdvance(body, k + 1, ids)

scanQuoteIds(file) ==
    IF ~file.exists THEN [ok |-> FALSE, ids |-> <<>>, handle |-> "none"]
    ELSE IF ~file.key \/ ~file.arr
    THEN [ok |-> FALSE, ids |-> <<>>, handle |-> "open"]
    ELSE ScanLoop(file.body, 1, <<>>)

\* getQuoteFromSD, likewise: found, and the id of the record returned.
RECURSIVE FetchLoop(_, _, _)
RECURSIVE FetchAdvance(_, _, _)
FetchLoop(body, i, targetId) ==
    IF i > Len(body)
    THEN [found |-> FALSE, id |-> 0, handle |-> "closed"]
    ELSE LET j == SkipSpaces(body, i) IN
         IF j > Len(body) THEN [found |-> FALSE, id |-> 0, handle |-> "closed"]
         ELSE IF body[j].t = "obj" /\ body[j].fit /\ body[j].id = targetId
         THEN [found |-> TRUE, id |-> body[j].id, handle |-> "closed"]
         ELSE FetchAdvance(body, j + 1, targetId)

FetchAdvance(body, k, targetId) ==
    IF k > Len(body) THEN FetchLoop(body, k, targetId)
    ELSE IF body[k].t = "," THEN FetchLoop(body, k + 1, targetId)
    ELSE IF body[k].t = "]" THEN [found |-> FALSE, id |-> 0, handle |-> "closed"]
    ELSE FetchAdvance(body, k + 1, targetId)

\* getQuoteFromSD without the comparison of doc["id"] with targetId: the
\* first element that deserializes is returned.
getQuoteFromSDAnyId(file, targetId) ==
    IF ~file.exists \/ ~file.key \/ ~file.arr
    THEN [found |-> FALSE, id |-> 0, handle |-> "none"]
    ELSE LET j == SkipSpaces(file.body, 1) IN
         IF j <= Len(file.body) /\ file.body[j].t = "obj" /\ file.body[j].fit
         THEN [found |-> TRUE, id |-> file.body[j].id, handle |-> "closed"]
         ELSE FetchLoop(file.body, 1, targetId)

getQuoteFromSD(file, targetId) ==
    IF ~file.exists THEN [found |-> FALSE, id |-> 0, handle |-> "none"]
    ELSE IF ~file.key \/ ~file.arr
    THEN [found |-> FALSE, id |-> 0, handle |-> "open"]
    ELSE FetchLoop(file.body, 1, targetId)

\* A File object whose destruction leaves the file as it is.
FileScopeExitLeaks(handle) == handle

\* The end of the scope of the local "File file": the object holds the only
\* reference to the file, and destroying it closes a file still open.
FileScopeExit(handle) == IF handle = "open" THEN "closed" ELSE handle

\* The files a call leaves open on return.
LeftOpen(handle) == IF FileScopeExit(handle) = "open" THEN 1 ELSE 0

\* ------------------------------------------------- the persisted shown list

Digit == <<"0", "1", "2", "3", "4", "5", "6", "7", "8", "9">>

RECURSIVE NatToStr(_)
NatToStr(n) ==
    IF n < 10 THEN <<Digit[n + 1]>>
    ELSE NatToStr(n \div 10) \o <<Digit[(n % 10) + 1]>>

\* String(int)
IntToStr(n) == IF n < 0 THEN <<"-">> \o NatToStr(-n) ELSE NatToStr(n)

DigitValue(c) == CHOOSE d \in 0..9 : Digit[d + 1] = c
IsDigit(c) == \E d \in 0..9 : Digit[d + 1] = c

\* String::toInt (atol): an optional sign, then digits up to the first other
\* character; 0 when there is no digit.
RECURSIVE ParseDigits(_, _, _)
ParseDigits(s, i, acc) ==
    IF i <= Len(s) /\ IsDigit(s[i])
    THEN ParseDigits(s, i + 1, acc * 10 + DigitValue(s[i]))
    ELSE acc

toInt(s) ==
    IF Len(s) = 0 THEN 0
    ELSE IF s[1] = "-" THEN -ParseDigits(s, 2, 0)
    ELSE IF s[1] = "+" THEN ParseDigits(s, 2, 0)
    ELSE ParseDigits(s, 1, 0)

\* saveShownQuotes: the string written under the key "shown".
RECURSIVE EncodeShown(_)
EncodeShown(ids) ==
    IF Len(ids) = 0 THEN <<>>
    ELSE IF Len(ids) = 1 THEN IntToStr(ids[1])
    ELSE EncodeShown(SubSeq(ids, 1, Len(ids) - 1)) \o <<",">> \o IntToStr(ids[Len(ids)])

\* loadShownQuotes keeping an id only when toInt gives a value other than 0.
RECURSIVE DecodeFromNoZero(_, _, _, _)
DecodeFromNoZero(s, i, start, ids) ==
    IF i > Len(s) + 1 THEN ids
    ELSE IF i = Len(s) + 1 \/ s[i] = ","
    THEN LET id == toInt(SubSeq(s, start, i - 1))
         IN DecodeFromNoZero(s, i + 1, i + 1,
                             IF i > start /\ id # 0 THEN Append(ids, id) ELSE ids)
    ELSE DecodeFromNoZero(s, i + 1, start, ids)

\* loadShownQuotes: the loop over i = 0 .. length, here 1 .. length + 1.
RECURSIVE DecodeFrom(_, _, _, _)
DecodeFrom(s, i, start, ids) ==
    IF i > Len(s) + 1 THEN ids
    ELSE IF i = Len(s) + 1 \/ s[i] = ","
    THEN LET idStr == SubSeq(s, start, i - 1)
             id == toInt(idStr)
         IN DecodeFrom(s, i + 1, i + 1,
                       IF i > start /\ (id # 0 \/ idStr = <<"0">>)
                       THEN Append(ids, id) ELSE ids)
    ELSE DecodeFrom(s, i + 1, start, ids)

DecodeShown(s) == IF Len(s) = 0 THEN <<>> ELSE DecodeFrom(s, 1, 1, <<>>)

\* isQuoteShown with a loop that starts at the second element.
isQuoteShownFromSecond(shown, id) == \E i \in 2..Len(shown) : shown[i] = id

\* isQuoteShown
isQuoteShown(shown, id) == \E i \in 1..Len(shown) : shown[i] = id

\* The unshown ids taken to be the whole index, shown or not.
UnshownWholeIndex(all, shown) == all

\* The unshown ids taken to be none as soon as the shown list is as long as
\* the index.
UnshownByCount(all, shown) ==
    IF Len(shown) >= Len(all) THEN <<>>
    ELSE SelectSeq(all, LAMBDA id : ~isQuoteShown(shown, id))

\* The ids of a list that isQuoteShown rejects, in order.
Unshown(all, shown) == SelectSeq(all, LAMBDA id : ~isQuoteShown(shown, id))

\* unshown.erase of the first element equal to id.
RECURSIVE EraseFirst(_, _)
EraseFirst(s, id) ==
    IF Len(s) = 0 THEN s
    ELSE IF Head(s) = id THEN Tail(s)
    ELSE <<Head(s)>> \o EraseFirst(Tail(s), id)

Range(s) == {s[i] : i \in 1..Len(s)}

\* -------------------------------------------------------------------- state

VARIABLES
    firmware,           \* BUILD_ID of the code that runs: 1, 2, ...
    card,               \* the SD card: whether SD.begin succeeds, and /quotes.json
    now,                \* the clock read by time()
    nvsBuildId,         \* NVS "buildId"; 0 is the missing key
    nvsTotalCnt,        \* NVS "totalCnt"
    nvsShown,           \* NVS "shown": a string, as a sequence of characters
    nextQuoteEpoch,     \* RTC memory
    currentQuoteId,     \* RTC memory
    lastCycleQuoteId,   \* RTC memory
    allQuoteIds,        \* RAM
    shownQuoteIds,      \* RAM
    unshown,            \* RAM: the local vector of displayRandomQuote
    totalDisplayCount,  \* RAM
    quoteId,            \* RAM: quote.id of the fetched record, 0 before the fetch
    selectedId,         \* RAM: the id handed to getQuoteFromSD, 0 before the draw
    openHandles,        \* RAM: the files open on the card
    wakeupReason,       \* RAM: "poweron", "timer", "ext0"
    batteryVoltage,     \* RAM: the reading of setup, in millivolts
    scanOk,             \* RAM: what scanQuoteIds returned
    pc,                 \* where the activation stands; "off", "asleep", "halted"
    timerWakeSec,       \* the timer wake source: seconds, -1 when not armed
    ext0Wake,           \* the button wake source
    wakeAt,             \* the clock value at which the armed timer fires
    screen,             \* what this activation drew: "none", "quote", "error", "lowbatt"
    audio,              \* the ids this activation handed to playAudioFromSD
    scanCalls,          \* calls of scanQuoteIds in this activation
    fetchCalls,         \* calls of getQuoteFromSD in this activation
    cycleSeen,          \* history: the ids committed in the current cycle
    lastCommitted,      \* history: the id committed last, 0 when none
    uncounted           \* history: the id this activation wrote to "shown" and
                        \* has not yet counted, 0 when none

nvs == <<nvsBuildId, nvsTotalCnt, nvsShown>>
rtc == <<nextQuoteEpoch, currentQuoteId, lastCycleQuoteId>>
ram == <<allQuoteIds, shownQuoteIds, unshown, totalDisplayCount, quoteId, selectedId, openHandles,
         wakeupReason, batteryVoltage, scanOk>>
wake == <<timerWakeSec, ext0Wake, wakeAt>>
obs == <<screen, audio, scanCalls, fetchCalls>>
hist == <<cycleSeen, lastCommitted, uncounted>>
env == <<firmware, card>>
vars == <<env, now, nvs, rtc, ram, pc, wake, obs, hist>>

Running == {"boot", "lowbatt", "button", "rearm", "refresh", "reset_shown",
            "store_build", "load", "select", "draw", "mark", "count", "render",
            "sleep"}

\* ------------------------------------------------------------- environment

Card(sd, file) == [sd |-> sd, file |-> file]

CardThree == Card(TRUE, Quotes(<<Obj(1), Comma, Obj(2), Comma, Obj(3), Close>>))
CardTwo == Card(TRUE, Quotes(<<Obj(1), Comma, Ws, Obj(2), Close>>))
CardOne == Card(TRUE, Quotes(<<Obj(1), Close>>))
CardDup == Card(TRUE, Quotes(<<Obj(1), Comma, Obj(1), Comma, Obj(2), Close>>))
CardBig == Card(TRUE, Quotes(<<Obj(1), Comma, Big(2), Close>>))
CardZero == Card(TRUE, Quotes(<<Obj(0), Close>>))
CardEmpty == Card(TRUE, Quotes(<<Close>>))
CardCut == Card(TRUE, Quotes(<<Obj(2), Comma, Obj(1), Comma, Bad>>))
CardNoFile == Card(TRUE, NoFile)
CardNone == Card(FALSE, NoFile)

Cards == {CardThree, CardTwo, CardOne, CardDup, CardBig, CardZero, CardEmpty,
          CardCut, CardNoFile, CardNone}

\* The cards a swap puts in: a larger catalog, a smaller one, none.
SwapCards == {CardThree, CardTwo, CardNone}

\* Battery readings: below the not-connected level, at it, critical, at the
\* critical level, healthy.
BatteryLevels == {500, BatNotConnected, BAT_EMPTY, BAT_CRITICAL, 3700}

\* How long before the timer fires a button press comes: under the floor
\* of the button branch, at it, an hour.
ButtonLeads == {30, 60, 3600}

CompileEpoch == 0
NetworkEpoch == 3600

\* ----------------------------------------------------------------- helpers

ClearRam ==
    /\ allQuoteIds' = <<>>
    /\ shownQuoteIds' = <<>>
    /\ unshown' = <<>>
    /\ totalDisplayCount' = 0
    /\ quoteId' = 0
    /\ selectedId' = 0
    /\ openHandles' = 0
    /\ wakeupReason' = "none"
    /\ batteryVoltage' = 0
    /\ scanOk' = FALSE

ClearObs ==
    /\ screen' = "none"
    /\ audio' = <<>>
    /\ scanCalls' = 0
    /\ fetchCalls' = 0

\* The RTC_DATA_ATTR initialisers, applied on every start that is not a wake
\* from deep sleep.
ClearRtc ==
    /\ nextQuoteEpoch' = 0
    /\ currentQuoteId' = 0
    /\ lastCycleQuoteId' = NoCarryOver

\* A device that never ran: empty NVS, power off.
Fresh ==
    /\ firmware = 1
    /\ now = 0
    /\ nvsBuildId = 0 /\ nvsTotalCnt = 0 /\ nvsShown = <<>>
    /\ nextQuoteEpoch = 0 /\ currentQuoteId = 0 /\ lastCycleQuoteId = NoCarryOver
    /\ allQuoteIds = <<>> /\ shownQuoteIds = <<>> /\ unshown = <<>>
    /\ totalDisplayCount = 0 /\ quoteId = 0 /\ wakeupReason = "none"
    /\ selectedId = 0 /\ openHandles = 0
    /\ batteryVoltage = 0 /\ scanOk = FALSE
    /\ timerWakeSec = -1 /\ ext0Wake = FALSE /\ wakeAt = 0
    /\ screen = "none" /\ audio = <<>> /\ scanCalls = 0 /\ fetchCalls = 0
    /\ cycleSeen = {} /\ lastCommitted = 0 /\ uncounted = 0

Init ==
    /\ Fresh
    /\ card \in Cards
    /\ pc = "off"

\* ------------------------------------------------------ power and wake-ups

\* Power is applied, or the chip is reset.
PowerOn ==
    /\ pc = "off"
    /\ nvsTotalCnt < MaxCount
    /\ pc' = "boot"
    /\ wakeupReason' = "poweron"
    /\ UNCHANGED <<env, now, nvs, rtc, allQuoteIds, shownQuoteIds, unshown,
                   totalDisplayCount, quoteId, selectedId, openHandles, batteryVoltage, scanOk, wake, obs,
                   hist>>

\* Power is lost: RAM, RTC memory and the clock are gone, NVS stays.
PowerLoss ==
    /\ pc # "off"
    /\ pc' = "off"
    /\ now' = 0
    /\ ClearRtc /\ ClearRam /\ ClearObs
    /\ timerWakeSec' = -1 /\ ext0Wake' = FALSE /\ wakeAt' = 0
    /\ uncounted' = 0
    /\ UNCHANGED <<env, nvs, cycleSeen, lastCommitted>>

TimerWake ==
    /\ pc = "asleep"
    /\ timerWakeSec >= 0
    /\ wakeAt <= MaxTime
    /\ nvsTotalCnt < MaxCount
    /\ now' = wakeAt
    /\ pc' = "boot"
    /\ wakeupReason' = "timer"
    /\ timerWakeSec' = -1 /\ ext0Wake' = FALSE /\ wakeAt' = 0
    /\ UNCHANGED <<env, nvs, rtc, allQuoteIds, shownQuoteIds, unshown,
                   totalDisplayCount, quoteId, selectedId, openHandles, batteryVoltage, scanOk, obs, hist>>

ButtonWake ==
    /\ pc = "asleep"
    /\ ext0Wake
    /\ wakeAt <= MaxTime
    /\ \E lead \in ButtonLeads :
          /\ wakeAt - lead >= now
          /\ now' = wakeAt - lead
    /\ pc' = "boot"
    /\ wakeupReason' = "ext0"
    /\ timerWakeSec' = -1 /\ ext0Wake' = FALSE /\ wakeAt' = 0
    /\ UNCHANGED <<env, nvs, rtc, allQuoteIds, shownQuoteIds, unshown,
                   totalDisplayCount, quoteId, selectedId, openHandles, batteryVoltage, scanOk, obs, hist>>

\* Another card is put in while the device is off or asleep.
SwapCard ==
    /\ pc \in {"off", "asleep"}
    /\ card' \in SwapCards \ {card}
    /\ UNCHANGED <<firmware, now, nvs, rtc, ram, pc, wake, obs, hist>>

\* New code is uploaded while the device is off.
Upload ==
    /\ pc = "off"
    /\ firmware < MaxBuilds
    /\ firmware' = firmware + 1
    /\ UNCHANGED <<card, now, nvs, rtc, ram, pc, wake, obs, hist>>

\* ------------------------------------------------------------------- setup

\* The battery check against BAT_EMPTY instead of BAT_CRITICAL.
IsCriticalEmpty(v) == v > BatNotConnected /\ v < BAT_EMPTY

IsCritical(v) == v > BatNotConnected /\ v < BAT_CRITICAL

\* setup up to the three-way branch: battery check, then the wake reason.
Boot ==
    /\ pc = "boot"
    /\ \E v \in BatteryLevels :
          /\ batteryVoltage' = v
          /\ pc' = IF IsCritical(v) THEN "lowbatt"
                   ELSE IF wakeupReason = "ext0" THEN "button"
                   ELSE "refresh"
    /\ UNCHANGED <<env, now, nvs, rtc, allQuoteIds, shownQuoteIds, unshown,
                   totalDisplayCount, quoteId, selectedId, openHandles, wakeupReason, scanOk, wake, obs,
                   hist>>

showLowBatteryAndHalt ==
    /\ pc = "lowbatt"
    /\ screen' = "lowbatt"
    /\ timerWakeSec' = -1 /\ ext0Wake' = FALSE /\ wakeAt' = 0
    /\ pc' = "halted"
    /\ UNCHANGED <<env, now, nvs, rtc, ram, audio, scanCalls, fetchCalls, hist>>

\* cleanupAndSleep without esp_sleep_enable_ext0_wakeup.
cleanupAndSleepTimerOnly(sleepDurationSec) ==
    /\ ext0Wake' = FALSE
    /\ timerWakeSec' = sleepDurationSec
    /\ wakeAt' = now + sleepDurationSec
    /\ pc' = "asleep"
    /\ allQuoteIds' = <<>> /\ shownQuoteIds' = <<>> /\ unshown' = <<>>
    /\ totalDisplayCount' = 0 /\ quoteId' = 0 /\ wakeupReason' = "none"
    /\ selectedId' = 0 /\ openHandles' = 0
    /\ batteryVoltage' = 0 /\ scanOk' = FALSE
    /\ screen' = "none" /\ audio' = <<>> /\ scanCalls' = 0 /\ fetchCalls' = 0

\* cleanupAndSleep: both wake sources, then deep sleep; RAM is lost.
cleanupAndSleep(sleepDurationSec) ==
    /\ ext0Wake' = TRUE
    /\ timerWakeSec' = sleepDurationSec
    /\ wakeAt' = now + sleepDurationSec
    /\ pc' = "asleep"
    /\ ClearRam /\ ClearObs

\* goToSleep without the assignment to nextQuoteEpoch.
goToSleepKeepsEpoch(sleepDurationSec) ==
    /\ nextQuoteEpoch' = nextQuoteEpoch
    /\ cleanupAndSleep(sleepDurationSec)

\* goToSleep
goToSleep(sleepDurationSec) ==
    /\ nextQuoteEpoch' = now + sleepDurationSec
    /\ cleanupAndSleep(sleepDurationSec)

\* The button branch: audio first.
ButtonReplay ==
    /\ pc = "button"
    /\ audio' = IF card.sd THEN Append(audio, currentQuoteId) ELSE audio
    /\ pc' = "rearm"
    /\ UNCHANGED <<env, now, nvs, rtc, ram, wake, screen, scanCalls, fetchCalls,
                   hist>>

\* The button branch arming the full interval whatever time is left.
RemainingSecAlwaysFull(next, t) == REFRESH_INTERVAL

\* remainingSec without the 60-second floor.
RemainingSecNoFloor(next, t) ==
    IF next > t THEN next - t ELSE REFRESH_INTERVAL

\* remainingSec of the button branch.
RemainingSec(next, t) ==
    LET remaining == IF next > t THEN next - t ELSE 0
    IN IF remaining < MinRemainingSec THEN REFRESH_INTERVAL ELSE remaining

\* The button branch ending in goToSleep, which moves nextQuoteEpoch.
ButtonRearmGoToSleep ==
    /\ pc = "rearm"
    /\ goToSleep(RemainingSec(nextQuoteEpoch, now))
    /\ UNCHANGED <<env, now, nvs, currentQuoteId, lastCycleQuoteId, hist>>

\* The button branch: the remaining time, then cleanupAndSleep.
ButtonRearm ==
    /\ pc = "rearm"
    /\ cleanupAndSleep(RemainingSec(nextQuoteEpoch, now))
    /\ UNCHANGED <<env, now, nvs, rtc, hist>>

\* ------------------------------------------------------- the refresh branch

\* checkNewCodeUpload resetting the counter whatever the stored build id.
checkNewCodeUploadAlways ==
    /\ pc = "refresh"
    /\ totalDisplayCount' = 0
    /\ nvsTotalCnt' = 0
    /\ pc' = IF nvsBuildId # firmware THEN "reset_shown" ELSE "load"
    /\ UNCHANGED <<env, now, nvsBuildId, nvsShown, rtc, allQuoteIds, shownQuoteIds,
                   unshown, quoteId, selectedId, openHandles, wakeupReason,
                   batteryVoltage, scanOk, wake, obs, hist>>

\* checkNewCodeUpload, the comparison; on a new build its first write.
checkNewCodeUpload ==
    /\ pc = "refresh"
    /\ IF nvsBuildId # firmware
       THEN /\ totalDisplayCount' = 0
            /\ nvsTotalCnt' = 0
            /\ pc' = "reset_shown"
       ELSE /\ pc' = "load"
            /\ UNCHANGED <<totalDisplayCount, nvsTotalCnt>>
    /\ UNCHANGED <<env, now, nvsBuildId, nvsShown, rtc, allQuoteIds, shownQuoteIds,
                   unshown, quoteId, selectedId, openHandles, wakeupReason, batteryVoltage, scanOk, wake,
                   obs, hist>>

\* clearShownQuotes
clearShownQuotes ==
    /\ shownQuoteIds' = <<>>
    /\ nvsShown' = <<>>

\* checkNewCodeUpload: clearShownQuotes(); lastCycleQuoteId = -1;
ResetShown ==
    /\ pc = "reset_shown"
    /\ clearShownQuotes
    /\ lastCycleQuoteId' = NoCarryOver
    /\ pc' = "store_build"
    /\ UNCHANGED <<env, now, nvsBuildId, nvsTotalCnt, nextQuoteEpoch, currentQuoteId,
                   allQuoteIds, unshown, totalDisplayCount, quoteId, selectedId, openHandles, wakeupReason,
                   batteryVoltage, scanOk, wake, obs, hist>>

\* syncTimeNTP: no WiFi sets the compile time, a failed NTP query leaves the
\* clock, a successful one sets the network's time.
SyncTimes == {CompileEpoch, now, NetworkEpoch}

\* checkNewCodeUpload without putString("buildId", BUILD_ID).
StoreBuildKeepsMarker ==
    /\ pc = "store_build"
    /\ now' \in SyncTimes
    /\ pc' = "load"
    /\ UNCHANGED <<env, nvs, rtc, ram, wake, obs, hist>>

\* checkNewCodeUpload: syncTimeNTP(); putString("buildId", BUILD_ID);
StoreBuild ==
    /\ pc = "store_build"
    /\ now' \in SyncTimes
    /\ nvsBuildId' = firmware
    /\ pc' = "load"
    /\ UNCHANGED <<env, nvsTotalCnt, nvsShown, rtc, ram, wake, obs, hist>>

\* setup trying the card and the scan again after a failure.
LoadAndScanRetry ==
    /\ pc = "load"
    /\ totalDisplayCount' = nvsTotalCnt
    /\ LET r == scanQuoteIds(card.file) IN
          /\ scanCalls' = scanCalls + 1
          /\ scanOk' = r.ok
          /\ allQuoteIds' = r.ids
          /\ openHandles' = openHandles + LeftOpen(r.handle)
          /\ IF ~card.sd \/ ~r.ok
             THEN /\ screen' = "error"
                  /\ pc' = "load"
                  /\ UNCHANGED shownQuoteIds
             ELSE /\ shownQuoteIds' = DecodeShown(nvsShown)
                  /\ pc' = "select"
                  /\ UNCHANGED screen
    /\ UNCHANGED <<env, now, nvs, rtc, unshown, quoteId, selectedId, wakeupReason,
                   batteryVoltage, wake, audio, fetchCalls, hist>>

\* setup: load the counter, initSD, scanQuoteIds, loadShownQuotes.
LoadAndScan ==
    /\ pc = "load"
    /\ totalDisplayCount' = nvsTotalCnt
    /\ IF ~card.sd
       THEN /\ screen' = "error"
            /\ pc' = "sleep"
            /\ UNCHANGED <<allQuoteIds, shownQuoteIds, scanOk, scanCalls,
                           openHandles>>
       ELSE LET r == scanQuoteIds(card.file) IN
            /\ scanCalls' = scanCalls + 1
            /\ scanOk' = r.ok
            /\ allQuoteIds' = r.ids
            /\ openHandles' = openHandles + LeftOpen(r.handle)
            /\ IF ~r.ok
               THEN /\ screen' = "error"
                    /\ pc' = "sleep"
                    /\ UNCHANGED shownQuoteIds
               ELSE /\ shownQuoteIds' = DecodeShown(nvsShown)
                    /\ pc' = "select"
                    /\ UNCHANGED screen
    /\ UNCHANGED <<env, now, nvs, rtc, unshown, quoteId, selectedId, wakeupReason,
                   batteryVoltage, wake, audio, fetchCalls, hist>>

\* displayRandomQuote resetting the cycle in every activation.
SelectUnshownClears ==
    /\ pc = "select"
    /\ IF allQuoteIds = <<>>
       THEN /\ pc' = "sleep"
            /\ UNCHANGED <<unshown, shownQuoteIds, nvsShown, lastCycleQuoteId>>
       ELSE /\ pc' = "draw"
            /\ lastCycleQuoteId' = currentQuoteId
            /\ clearShownQuotes
            /\ unshown' = Unshown(allQuoteIds, <<>>)
    /\ UNCHANGED <<env, now, nvsBuildId, nvsTotalCnt, nextQuoteEpoch, currentQuoteId,
                   allQuoteIds, totalDisplayCount, quoteId, selectedId, openHandles,
                   wakeupReason, batteryVoltage, scanOk, wake, obs, hist>>

\* displayRandomQuote starting a new cycle without clearShownQuotes.
SelectUnshownKeepsShown ==
    /\ pc = "select"
    /\ IF allQuoteIds = <<>>
       THEN /\ pc' = "sleep"
            /\ UNCHANGED <<unshown, lastCycleQuoteId>>
       ELSE /\ pc' = "draw"
            /\ IF Unshown(allQuoteIds, shownQuoteIds) = <<>>
               THEN /\ lastCycleQuoteId' = currentQuoteId
                    /\ unshown' = allQuoteIds
               ELSE /\ unshown' = Unshown(allQuoteIds, shownQuoteIds)
                    /\ UNCHANGED lastCycleQuoteId
    /\ UNCHANGED <<env, now, nvs, nextQuoteEpoch, currentQuoteId, allQuoteIds,
                   shownQuoteIds, totalDisplayCount, quoteId, selectedId,
                   openHandles, wakeupReason, batteryVoltage, scanOk, wake, obs,
                   hist>>

\* displayRandomQuote up to the cycle reset.
SelectUnshown ==
    /\ pc = "select"
    /\ IF allQuoteIds = <<>>
       THEN /\ pc' = "sleep"
            /\ UNCHANGED <<unshown, shownQuoteIds, nvsShown, lastCycleQuoteId>>
       ELSE /\ pc' = "draw"
            /\ IF Unshown(allQuoteIds, shownQuoteIds) = <<>>
               THEN /\ lastCycleQuoteId' = currentQuoteId
                    /\ clearShownQuotes
                    /\ unshown' = Unshown(allQuoteIds, <<>>)
               ELSE /\ unshown' = Unshown(allQuoteIds, shownQuoteIds)
                    /\ UNCHANGED <<shownQuoteIds, nvsShown, lastCycleQuoteId>>
    /\ UNCHANGED <<env, now, nvsBuildId, nvsTotalCnt, nextQuoteEpoch, currentQuoteId,
                   allQuoteIds, totalDisplayCount, quoteId, selectedId, openHandles, wakeupReason,
                   batteryVoltage, scanOk, wake, obs, hist>>

\* The exclusion without the test "unshown.size() > 1".
CandidatesAnySize(list, last) ==
    IF last >= 0 THEN EraseFirst(list, last) ELSE list

\* The candidates after "Avoid repeating last quote of previous cycle".
Candidates(list, last) ==
    IF last >= 0 /\ Len(list) > 1 THEN EraseFirst(list, last) ELSE list

\* displayRandomQuote going on to the commit whatever the fetch returned.
DrawAndFetchUnchecked ==
    /\ pc = "draw"
    /\ unshown' = Candidates(unshown, lastCycleQuoteId)
    /\ lastCycleQuoteId' = IF lastCycleQuoteId >= 0 /\ Len(unshown) > 1
                           THEN NoCarryOver ELSE lastCycleQuoteId
    /\ fetchCalls' = fetchCalls + 1
    /\ \E randIdx \in 1..Len(unshown') :
          LET r == getQuoteFromSD(card.file, unshown'[randIdx]) IN
          /\ selectedId' = unshown'[randIdx]
          /\ openHandles' = openHandles + LeftOpen(r.handle)
          /\ quoteId' = r.id
    /\ pc' = "mark"
    /\ UNCHANGED <<env, now, nvs, nextQuoteEpoch, currentQuoteId, allQuoteIds,
                   shownQuoteIds, totalDisplayCount, wakeupReason, batteryVoltage,
                   scanOk, wake, screen, audio, scanCalls, hist>>

\* displayRandomQuote: the exclusion, the random draw and the fetch.
DrawAndFetch ==
    /\ pc = "draw"
    /\ unshown' = Candidates(unshown, lastCycleQuoteId)
    /\ lastCycleQuoteId' = IF lastCycleQuoteId >= 0 /\ Len(unshown) > 1
                           THEN NoCarryOver ELSE lastCycleQuoteId
    /\ fetchCalls' = fetchCalls + 1
    /\ \E randIdx \in 1..Len(unshown') :
          LET r == getQuoteFromSD(card.file, unshown'[randIdx]) IN
          /\ selectedId' = unshown'[randIdx]
          /\ openHandles' = openHandles + LeftOpen(r.handle)
          /\ IF r.found
             THEN quoteId' = r.id /\ pc' = "mark"
             ELSE quoteId' = quoteId /\ pc' = "sleep"
    /\ UNCHANGED <<env, now, nvs, nextQuoteEpoch, currentQuoteId, allQuoteIds,
                   shownQuoteIds, totalDisplayCount, wakeupReason, batteryVoltage,
                   scanOk, wake, screen, audio, scanCalls, hist>>

\* The commit pushing currentQuoteId, the id of the quote shown before.
MarkShownCurrent ==
    /\ pc = "mark"
    /\ shownQuoteIds' = Append(shownQuoteIds, currentQuoteId)
    /\ nvsShown' = EncodeShown(shownQuoteIds')
    /\ cycleSeen' = IF Range(allQuoteIds) \subseteq cycleSeen
                    THEN {quoteId} ELSE cycleSeen \cup {quoteId}
    /\ lastCommitted' = quoteId
    /\ uncounted' = quoteId
    /\ pc' = "count"
    /\ UNCHANGED <<env, now, nvsBuildId, nvsTotalCnt, rtc, allQuoteIds, unshown,
                   totalDisplayCount, quoteId, selectedId, openHandles,
                   wakeupReason, batteryVoltage, scanOk, wake, obs>>

\* shownQuoteIds.push_back(quote.id); saveShownQuotes();
MarkShown ==
    /\ pc = "mark"
    /\ shownQuoteIds' = Append(shownQuoteIds, quoteId)
    /\ nvsShown' = EncodeShown(shownQuoteIds')
    /\ cycleSeen' = IF Range(allQuoteIds) \subseteq cycleSeen
                    THEN {quoteId} ELSE cycleSeen \cup {quoteId}
    /\ lastCommitted' = quoteId
    /\ uncounted' = quoteId
    /\ pc' = "count"
    /\ UNCHANGED <<env, now, nvsBuildId, nvsTotalCnt, rtc, allQuoteIds, unshown,
                   totalDisplayCount, quoteId, selectedId, openHandles, wakeupReason, batteryVoltage, scanOk,
                   wake, obs>>

\* currentQuoteId = quote.id; totalDisplayCount++; putUInt("totalCnt", ...)
\* The counter is a uint32_t; MaxCount keeps it far from its wrap.
CountDisplay ==
    /\ pc = "count"
    /\ currentQuoteId' = quoteId
    /\ totalDisplayCount' = totalDisplayCount + 1
    /\ nvsTotalCnt' = totalDisplayCount'
    /\ uncounted' = 0
    /\ pc' = "render"
    /\ UNCHANGED <<env, now, nvsBuildId, nvsShown, nextQuoteEpoch, lastCycleQuoteId,
                   allQuoteIds, shownQuoteIds, unshown, quoteId, selectedId,
                   openHandles, wakeupReason, batteryVoltage, scanOk, wake, obs,
                   cycleSeen, lastCommitted>>

\* The page loop whose display.nextPage() never returns false.
RenderNeverEnds ==
    /\ pc = "render"
    /\ screen' = "quote"
    /\ pc' = "render"
    /\ UNCHANGED <<env, now, nvs, rtc, ram, wake, audio, scanCalls, fetchCalls,
                   hist>>

\* The page loop that draws the quote, the author, the counter, the battery.
Render ==
    /\ pc = "render"
    /\ screen' = "quote"
    /\ pc' = "sleep"
    /\ UNCHANGED <<env, now, nvs, rtc, ram, wake, audio, scanCalls, fetchCalls,
                   hist>>

\* setup: goToSleep(REFRESH_INTERVAL), on every way out of the refresh branch.
SleepAfterRefresh ==
    /\ pc = "sleep"
    /\ goToSleep(REFRESH_INTERVAL)
    /\ UNCHANGED <<env, now, nvs, currentQuoteId, lastCycleQuoteId, hist>>

\* ----------------------------------------------------------- specifications

Activation ==
    \/ Boot
    \/ showLowBatteryAndHalt
    \/ ButtonReplay
    \/ ButtonRearm
    \/ checkNewCodeUpload
    \/ ResetShown
    \/ StoreBuild
    \/ LoadAndScan
    \/ SelectUnshown
    \/ DrawAndFetch
    \/ MarkShown
    \/ CountDisplay
    \/ Render
    \/ SleepAfterRefresh

NextFixed ==
    \/ PowerOn
    \/ PowerLoss
    \/ TimerWake
    \/ ButtonWake
    \/ Activation

Next ==
    \/ NextFixed
    \/ SwapCard
    \/ Upload

\* Any card, any build, cards swapped and code uploaded between activations.
Spec == Init /\ [][Next]_vars

\* One card and one build for the whole behaviour.
SpecFixed == Init /\ [][NextFixed]_vars

\* The device kept powered: wake-ups and activations only.
NextPowered ==
    \/ PowerOn
    \/ TimerWake
    \/ ButtonWake
    \/ Activation

\* setup runs once per wake-up from its first statement to the deep-sleep call
\* with nothing to wait for but its own bounded loops (the NTP wait gives up
\* after MAX_WAIT_SEC, the readers stop at the end of the file), so an
\* activation that can take a step takes it.
SpecLive == Init /\ [][NextPowered]_vars /\ WF_vars(Activation)

\* ------------------------------------------------ the catalog reader alone

ScanTokens == {Obj(0), Obj(1), Obj(2), Big(1), Bad, Comma, Close, Ws}

\* After an element comes white space and then a comma, the closing bracket
\* or the end of the file: the loops that advance to the next element then
\* read only separators and white space.
Separated(body) ==
    \A i \in 1..Len(body) :
        body[i].t \in {"obj", "bad"} =>
            LET j == SkipSpaces(body, i + 1)
            IN j > Len(body) \/ body[j].t \in {",", "]"}

ScanBodies == {b \in UNION {[1..n -> ScanTokens] : n \in 0..MaxBody} : Separated(b)}

ScanFiles ==
    {Quotes(b) : b \in ScanBodies}
        \cup {NoFile, File(FALSE, FALSE, <<>>), File(TRUE, FALSE, <<>>)}

\* The ids handed to getQuoteFromSD: ids of the files above and one that no
\* file holds.  (Never 0: scanQuoteIds keeps no 0 in the index.)
FetchTargets == {1, 2, 3}

\* A device that committed id 1 in its first refresh, a day ago.
AfterOneCommit ==
    /\ firmware = 1
    /\ now = REFRESH_INTERVAL
    /\ nvsBuildId = 1 /\ nvsTotalCnt = 1 /\ nvsShown = IntToStr(1)
    /\ nextQuoteEpoch = REFRESH_INTERVAL /\ currentQuoteId = 1
    /\ lastCycleQuoteId = NoCarryOver
    /\ allQuoteIds = <<>> /\ shownQuoteIds = <<>> /\ unshown = <<>>
    /\ totalDisplayCount = 1 /\ quoteId = 0 /\ wakeupReason = "timer"
    /\ selectedId = 0 /\ openHandles = 0
    /\ batteryVoltage = 0 /\ scanOk = FALSE
    /\ timerWakeSec = -1 /\ ext0Wake = FALSE /\ wakeAt = 0
    /\ screen = "none" /\ audio = <<>> /\ scanCalls = 0 /\ fetchCalls = 0
    /\ cycleSeen = {1} /\ lastCommitted = 1 /\ uncounted = 0

ScanInit ==
    /\ Fresh \/ AfterOneCommit
    /\ card \in {Card(TRUE, f) : f \in ScanFiles}
    /\ pc = "scan"

\* One call of scanQuoteIds on the file.
ScanPass ==
    /\ pc = "scan"
    /\ LET r == scanQuoteIds(card.file) IN
          /\ scanOk' = r.ok
          /\ allQuoteIds' = r.ids
          /\ openHandles' = openHandles + LeftOpen(r.handle)
    /\ scanCalls' = scanCalls + 1
    /\ pc' = "scanned"
    /\ UNCHANGED <<env, now, nvs, rtc, shownQuoteIds, unshown, totalDisplayCount,
                   quoteId, selectedId, wakeupReason, batteryVoltage, wake, screen, audio,
                   fetchCalls, hist>>

\* One call of getQuoteFromSD on the file, as displayRandomQuote makes it:
\* the caller goes on with the record or returns.
FetchPass ==
    /\ pc = "scanned"
    /\ \E targetId \in FetchTargets :
          LET r == getQuoteFromSD(card.file, targetId) IN
          /\ selectedId' = targetId
          /\ openHandles' = openHandles + LeftOpen(r.handle)
          /\ IF r.found
             THEN quoteId' = r.id /\ pc' = "fetched"
             ELSE quoteId' = quoteId /\ pc' = "notfound"
    /\ fetchCalls' = fetchCalls + 1
    /\ UNCHANGED <<env, now, nvs, rtc, allQuoteIds, shownQuoteIds, unshown,
                   totalDisplayCount, wakeupReason, batteryVoltage, scanOk, wake,
                   screen, audio, scanCalls, hist>>

NextScan ==
    \/ ScanPass
    \/ FetchPass

SpecScan == ScanInit /\ [][NextScan]_vars

\* ------------------------------------------------- the shown list alone

\* Ids of a shown list: negative, zero, one digit, more digits.
ShownIds == {-12, 0, 1, 7, 10, 123}

ShownLists == UNION {[1..n -> ShownIds] : n \in 0..MaxShown}

\* shownQuoteIds holds a list, in any order; NVS has no "shown" key yet.
CodecInit ==
    /\ firmware = 1
    /\ card = CardNone
    /\ now = 0
    /\ nvsBuildId = 1 /\ nvsTotalCnt = 0 /\ nvsShown = <<>>
    /\ nextQuoteEpoch = 0 /\ currentQuoteId = 0 /\ lastCycleQuoteId = NoCarryOver
    /\ allQuoteIds = <<>> /\ shownQuoteIds \in ShownLists /\ unshown = <<>>
    /\ totalDisplayCount = 0 /\ quoteId = 0 /\ wakeupReason = "poweron"
    /\ selectedId = 0 /\ openHandles = 0
    /\ batteryVoltage = 0 /\ scanOk = FALSE
    /\ timerWakeSec = -1 /\ ext0Wake = FALSE /\ wakeAt = 0
    /\ screen = "none" /\ audio = <<>> /\ scanCalls = 0 /\ fetchCalls = 0
    /\ cycleSeen = {} /\ lastCommitted = 0 /\ uncounted = 0
    /\ pc = "codec"

\* saveShownQuotes
saveShownQuotes ==
    /\ pc = "codec"
    /\ nvsShown' = EncodeShown(shownQuoteIds)
    /\ pc' = "saved"
    /\ UNCHANGED <<env, now, nvsBuildId, nvsTotalCnt, rtc, ram, wake, obs, hist>>

\* loadShownQuotes, after a save or with the key missing.
loadShownQuotes ==
    /\ pc \in {"codec", "saved"}
    /\ shownQuoteIds' = DecodeShown(nvsShown)
    /\ pc' = "loaded"
    /\ UNCHANGED <<env, now, nvs, rtc, allQuoteIds, unshown, totalDisplayCount,
                   quoteId, selectedId, openHandles, wakeupReason, batteryVoltage,
                   scanOk, wake, obs, hist>>

NextCodec ==
    \/ saveShownQuotes
    \/ loadShownQuotes

SpecCodec == CodecInit /\ [][NextCodec]_vars

\* ------------------------------------------------------------------ claims

\* The step that commits the fetched record: MarkShown.
Commits == pc = "mark" /\ pc' = "count"

\* The ids of the catalog index of this activation.
IndexIds == Range(allQuoteIds)

\* C1 (SpecFixed): one card, one build, any order of power-on, timer and
\* button wakes and of power losses: an id is committed again only when every
\* id of the catalog index has been committed in the current cycle.
C1_CoverageBeforeRepeat ==
    [][Commits => (quoteId \in cycleSeen => IndexIds \subseteq cycleSeen)]_vars

\* C1: a commit that starts a second cycle of a catalog of two or more ids.
C1_Witness ==
    /\ pc = "count"
    /\ Cardinality(IndexIds) >= 2
    /\ nvsTotalCnt >= Cardinality(IndexIds)
    /\ cycleSeen = {quoteId}

\* C2 (SpecFixed), the claim as stated: with more than one id in the catalog,
\* the first id committed in a cycle is never the id that completed the
\* cycle before it.
C2_CarryOverNeverFirst ==
    [][(Commits /\ IndexIds \subseteq cycleSeen /\ Cardinality(IndexIds) > 1)
          => quoteId # lastCommitted]_vars

\* A step that writes a longer shown list or a larger counter to NVS.
CommitWrite == Len(nvsShown') > Len(nvsShown) \/ nvsTotalCnt' > nvsTotalCnt

Rearms == pc = "rearm" /\ pc' = "asleep"

\* C4, the claim as stated: 30 seconds before nextQuoteEpoch the timer is
\* re-armed for 30 seconds; at or after nextQuoteEpoch for the full interval.
C4_RearmThirty ==
    [][Rearms =>
          /\ nextQuoteEpoch = now + 30 => timerWakeSec' = 30
          /\ nextQuoteEpoch <= now => timerWakeSec' = REFRESH_INTERVAL]_vars

\* C4 amended: 30 seconds before nextQuoteEpoch (below the 60-second floor)
\* the timer is re-armed for the full interval; 60 seconds before it for
\* exactly 60 seconds; at or after nextQuoteEpoch for the full interval.
C4_RearmFloor ==
    [][Rearms =>
          /\ nextQuoteEpoch = now + 30 => timerWakeSec' = REFRESH_INTERVAL
          /\ nextQuoteEpoch = now + 60 => timerWakeSec' = 60
          /\ nextQuoteEpoch <= now => timerWakeSec' = REFRESH_INTERVAL]_vars

\* C4: asleep after a button press 30 seconds before nextQuoteEpoch.
C4_Witness ==
    /\ pc = "asleep"
    /\ nextQuoteEpoch = now + 30
    /\ timerWakeSec = REFRESH_INTERVAL

\* C5: a button activation whose battery is not critical changes neither NVS
\* nor RTC memory, reads no catalog, hands to the audio player nothing but
\* currentQuoteId, and ends asleep with both wake sources.
C5_ButtonFrame ==
    [][(wakeupReason = "ext0" /\ pc \in Running \ {"lowbatt"} /\ pc' # "off") =>
          /\ UNCHANGED <<nvs, rtc>>
          /\ scanCalls' = 0 /\ fetchCalls' = 0
          /\ pc' \in {"lowbatt", "button", "rearm", "asleep"}
          /\ pc = "button" =>
                audio' = IF card.sd THEN <<currentQuoteId>> ELSE <<>>
          /\ pc' = "asleep" => ext0Wake' /\ timerWakeSec' > 0]_vars

\* C5: a button activation played the current quote and is about to re-arm.
C5_Witness ==
    /\ pc = "rearm"
    /\ currentQuoteId # 0
    /\ audio = <<currentQuoteId>>
    /\ nvsShown # <<>>

persist == <<nvs, rtc>>

\* C6, the claim as stated: every reading below the critical threshold
\* leads to the low-battery halt.
C6_BelowCriticalHalts ==
    [][(pc = "boot" /\ pc' # "off" /\ batteryVoltage' < BAT_CRITICAL)
          => pc' = "lowbatt"]_vars

\* C6 amended: every reading below the critical threshold and above the
\* 1.0 V not-connected level leads to the halt, whatever the wake cause,
\* with no scan, no fetch, no audio, NVS and RTC memory untouched and no
\* wake source armed.
C6_CriticalHalts ==
    [][/\ (pc = "boot" /\ pc' # "off" /\ batteryVoltage' > BatNotConnected
               /\ batteryVoltage' < BAT_CRITICAL)
          => (pc' = "lowbatt" /\ UNCHANGED persist)
       /\ (pc = "lowbatt" /\ pc' # "off")
          => /\ pc' = "halted"
             /\ timerWakeSec' = -1 /\ ~ext0Wake'
             /\ scanCalls' = 0 /\ fetchCalls' = 0 /\ audio' = <<>>
             /\ UNCHANGED persist]_vars

\* C6: halted after a button wake, with a quote shown earlier.
C6_Witness ==
    /\ pc = "halted"
    /\ wakeupReason = "ext0"
    /\ currentQuoteId # 0
    /\ IsCritical(batteryVoltage)

\* C7: an activation ends in the halt only on a critical battery; every other
\* end (after the button replay, after a refresh with or without a quote) is
\* deep sleep with the button armed and the timer armed for the computed
\* time.
C7_SleepArmsBoth ==
    [][(pc \in Running /\ pc' \notin Running /\ pc' # "off") =>
          IF pc = "lowbatt" THEN pc' = "halted" /\ IsCritical(batteryVoltage)
          ELSE /\ pc' = "asleep"
               /\ ext0Wake'
               /\ timerWakeSec' = IF pc = "rearm"
                                  THEN RemainingSec(nextQuoteEpoch, now)
                                  ELSE REFRESH_INTERVAL
               /\ timerWakeSec' > 0
               /\ wakeAt' = now + timerWakeSec']_vars

\* C7: asleep with both sources after a refresh that showed no quote.
C7_Witness ==
    /\ pc = "asleep"
    /\ ext0Wake /\ timerWakeSec = REFRESH_INTERVAL
    /\ nvsBuildId # 0
    /\ nvsTotalCnt = 0
    /\ nextQuoteEpoch = now + REFRESH_INTERVAL

\* C8: no activation scans or fetches twice, and a refresh that ends without
\* a fetched record arms the timer for the full interval.
C8_FailureNoRetry ==
    [][/\ scanCalls' <= 1 /\ fetchCalls' <= 1
       /\ (pc = "sleep" /\ quoteId = 0 /\ pc' # "off") =>
             /\ pc' = "asleep"
             /\ timerWakeSec' = REFRESH_INTERVAL
             /\ nextQuoteEpoch' = now + REFRESH_INTERVAL]_vars

\* C8: a refresh whose fetch failed is about to sleep.
C8_Witness ==
    /\ pc = "sleep"
    /\ quoteId = 0
    /\ fetchCalls = 1

\* C9, the claim as stated: a refresh that ends without a quote has shown
\* an error.
C9_FailureSurfaced ==
    (pc = "sleep" /\ quoteId = 0) => screen = "error"

\* C10 (SpecScan), the claim as stated: scanQuoteIds returns false whenever
\* it found no identifier.
C10_EmptyScanFails ==
    (pc = "scanned" /\ allQuoteIds = <<>>) => ~scanOk

\* The ids that the elements of the catalog file carry.  In a file that is
\* not well-formed JSON the objects after a stray "]" count as elements too:
\* the fetch pass reads on behind a "]" that stands where an element should.
ElementIds(file) ==
    IF ~file.exists \/ ~file.key \/ ~file.arr THEN {}
    ELSE {file.body[i].id : i \in {k \in 1..Len(file.body) :
                                       file.body[k].t = "obj"}}

\* C11 (SpecScan): getQuoteFromSD called with an id that no element of the
\* catalog carries returns false, and the call changes neither the shown
\* list (in NVS or in RAM), nor the counter, nor lastCycleQuoteId, nor
\* currentQuoteId, nor the record of the caller.
C11_AbsentIdNotFound ==
    [][(pc = "scanned" /\ pc' # "scanned"
            /\ selectedId' \notin ElementIds(card.file)) =>
          /\ pc' = "notfound"
          /\ quoteId' = quoteId
          /\ UNCHANGED <<nvs, rtc, shownQuoteIds, totalDisplayCount>>]_vars

\* C11: a fetch of an absent id from a catalog with elements, on a device
\* that has rotation state, returned false.
C11_Witness ==
    /\ pc = "notfound"
    /\ ElementIds(card.file) # {}
    /\ selectedId \notin ElementIds(card.file)
    /\ nvsShown # <<>> /\ currentQuoteId # 0

C13_CounterSteps ==
    [][/\ nvsTotalCnt' # nvsTotalCnt =>
             \/ /\ pc = "count" /\ quoteId # 0
                /\ nvsTotalCnt' = nvsTotalCnt + 1
             \/ /\ pc = "refresh" /\ nvsBuildId # firmware
                /\ nvsTotalCnt' = 0
       /\ (pc = "count" /\ pc' = "render") =>
             /\ nvsTotalCnt' = nvsTotalCnt + 1
             /\ isQuoteShown(DecodeShown(nvsShown), quoteId)
       /\ (pc = "refresh" /\ pc' # "off" /\ nvsBuildId = firmware) =>
             nvsTotalCnt' = nvsTotalCnt
       /\ (pc = "select" /\ pc' # "off") => nvsTotalCnt' = nvsTotalCnt]_vars

\* C13: a cycle reset has cleared the shown list of the stored build and the
\* counter still holds the commits made so far.
C13_Witness ==
    /\ pc = "draw"
    /\ nvsBuildId = firmware
    /\ nvsShown = <<>>
    /\ nvsTotalCnt >= 2

\* C14: a stored build id that differs from BUILD_ID is observed by a
\* power-on activation; that activation writes 0 to the counter, clears the
\* shown list and lastCycleQuoteId, calls syncTimeNTP and stores BUILD_ID.
\* An activation that finds the stored id equal to BUILD_ID changes neither
\* NVS nor RTC memory in checkNewCodeUpload, and the clock is set nowhere
\* else in an activation; the stored id changes only in that store.
C14_BuildResetOnce ==
    [][/\ (pc = "refresh" /\ pc' # "off") =>
             IF nvsBuildId # firmware
             THEN /\ wakeupReason = "poweron"
                  /\ nvsTotalCnt' = 0
                  /\ pc' = "reset_shown"
             ELSE /\ pc' = "load"
                  /\ UNCHANGED <<nvs, rtc, now>>
       /\ (pc = "reset_shown" /\ pc' # "off") =>
             /\ nvsShown' = <<>>
             /\ lastCycleQuoteId' = NoCarryOver
             /\ pc' = "store_build"
       /\ (pc = "store_build" /\ pc' # "off") =>
             /\ now' \in SyncTimes
             /\ nvsBuildId' = firmware
             /\ pc' = "load"
       /\ (pc \in Running /\ pc' # "off" /\ now' # now) => pc = "store_build"
       /\ nvsBuildId' # nvsBuildId => pc = "store_build"]_vars

\* C14: the second build was stored by an earlier activation; a timer
\* activation of that build has passed checkNewCodeUpload with the counter
\* of the commits made since.
C14_Witness ==
    /\ pc = "load"
    /\ wakeupReason = "timer"
    /\ firmware = 2 /\ nvsBuildId = 2
    /\ nvsTotalCnt > 0

\* C15 (SpecCodec): loadShownQuotes after saveShownQuotes gives the list that
\* was saved, the same ids in the same order, whatever the ids (negative,
\* zero, several digits) and their order, the empty list included; the
\* string saved has no trailing comma; a missing or empty "shown" string
\* loads as the empty list.
C15_ShownRoundTrip ==
    [][/\ (pc = "saved" /\ pc' = "loaded") =>
             /\ shownQuoteIds' = shownQuoteIds
             /\ Range(shownQuoteIds') = Range(shownQuoteIds)
       /\ (pc = "codec" /\ pc' = "saved") =>
             /\ shownQuoteIds = <<>> <=> nvsShown' = <<>>
             /\ nvsShown' # <<>> => nvsShown'[Len(nvsShown')] # ","
       /\ (pc' = "loaded" /\ nvsShown = <<>>) => shownQuoteIds' = <<>>]_vars

\* C15: a list with id 0, a negative id and an id of several digits, not in
\* ascending order, was saved and loaded.
C15_Witness ==
    /\ pc = "loaded"
    /\ Len(shownQuoteIds) = 3
    /\ shownQuoteIds[1] = 123 /\ shownQuoteIds[2] = 0 /\ shownQuoteIds[3] = -12
    /\ nvsShown # <<>>

\* The part of a refresh activation after the unshown ids were computed.
Reconciled == {"draw", "mark", "count", "render"}

\* C16, the claim as stated: after the unshown ids were computed, every id
\* of the shown list is an id of the catalog index.
C16_ShownWithinIndex ==
    pc \in Reconciled => Range(shownQuoteIds) \subseteq IndexIds

\* C16 amended: computing the unshown ids either clears the shown list (the
\* cycle reset) or keeps it as it was loaded; from then to the end of the
\* activation the list changes only by the commit, which appends the fetched
\* id, an id of the index.  A list that was within the index stays within
\* it; ids of entries the catalog has lost stay in the list.
C16_ShownGrowsByIndexId ==
    [][/\ (pc = "select" /\ pc' = "draw") =>
             shownQuoteIds' = IF Unshown(allQuoteIds, shownQuoteIds) = <<>>
                              THEN <<>> ELSE shownQuoteIds
       /\ (pc = "mark" /\ pc' = "count") =>
             /\ quoteId \in IndexIds
             /\ shownQuoteIds' = Append(shownQuoteIds, quoteId)
       /\ (pc \in Reconciled \ {"mark"} /\ pc' \in Running) =>
             shownQuoteIds' = shownQuoteIds
       /\ (pc \in Reconciled /\ pc' \in Reconciled
              /\ Range(shownQuoteIds) \subseteq IndexIds) =>
             Range(shownQuoteIds') \subseteq IndexIds']_vars

\* C16: the record fetched from a catalog that has lost an entry is
\* committed, and the id of the lost entry is still in the shown list.
C16_Witness ==
    /\ pc = "render"
    /\ isQuoteShown(shownQuoteIds, quoteId)
    /\ \E id \in Range(shownQuoteIds) : id \notin IndexIds

\* The number of ids in the shown list that NVS holds.
ShownSize == Len(DecodeShown(nvsShown))

\* C17, the claim as stated: the size of the persisted shown list changes
\* only by a commit, which adds one, and by the cycle reset, which makes it
\* zero.
C17_SizeTwoWays ==
    [][(nvsShown' # nvsShown /\ ShownSize' # ShownSize) =>
          \/ Commits /\ ShownSize' = ShownSize + 1
          \/ /\ pc = "select"
             /\ Unshown(allQuoteIds, shownQuoteIds) = <<>>
             /\ ShownSize' = 0]_vars

\* C17 amended: the size changes in three ways: a commit adds exactly one,
\* the cycle reset makes it zero, and the reset for a new build makes it
\* zero; no other step changes it.
C17_SizeThreeWays ==
    [][/\ (nvsShown' # nvsShown /\ ShownSize' # ShownSize) =>
             \/ Commits /\ ShownSize' = ShownSize + 1
             \/ /\ pc = "select"
                /\ allQuoteIds # <<>>
                /\ Unshown(allQuoteIds, shownQuoteIds) = <<>>
                /\ ShownSize' = 0
             \/ /\ pc = "reset_shown"
                /\ nvsBuildId # firmware
                /\ ShownSize' = 0
       /\ Commits => ShownSize' = ShownSize + 1]_vars

\* C17: the reset for the second build has emptied the shown list of a
\* device that had committed quotes.
C17_Witness ==
    /\ pc = "store_build"
    /\ firmware = 2 /\ nvsBuildId = 1
    /\ nvsShown = <<>>
    /\ lastCommitted # 0

\* The step of displayRandomQuote that finds every id of the index shown.
CycleBoundary ==
    /\ pc = "select" /\ pc' = "draw"
    /\ Unshown(allQuoteIds, shownQuoteIds) = <<>>

\* C18 (SpecFixed), the claim as stated: at every cycle boundary the shown
\* list is cleared, in RAM and in NVS, and lastCycleQuoteId becomes the id
\* committed last, whatever the wake cause of the activation.
C18_BoundarySetsCarryOver ==
    [][CycleBoundary =>
          /\ shownQuoteIds' = <<>>
          /\ nvsShown' = <<>>
          /\ lastCycleQuoteId' = lastCommitted]_vars

\* C19: the unshown ids are the ids of the index that are not in the shown
\* list, whatever other ids the shown list holds: index [1,2,3] and shown
\* [1,2,4] give [3].  While an id of the index is unshown the cycle is not
\* reset: the shown list and lastCycleQuoteId stay as they are.
C19_StaleShownHarmless ==
    [][/\ Unshown(<<1, 2, 3>>, <<1, 2, 4>>) = <<3>>
       /\ (pc = "select" /\ pc' = "draw"
              /\ IndexIds \ Range(shownQuoteIds) # {}) =>
             /\ Range(unshown') = IndexIds \ Range(shownQuoteIds)
             /\ UNCHANGED <<shownQuoteIds, nvsShown, lastCycleQuoteId>>]_vars

\* C19: the shown list is as long as the index and holds an id that the
\* index has lost; the id of the index that is not shown is the one unshown.
C19_Witness ==
    /\ pc = "draw"
    /\ Len(shownQuoteIds) >= Len(allQuoteIds)
    /\ \E id \in Range(shownQuoteIds) : id \notin IndexIds
    /\ unshown # <<>>
    /\ Range(unshown) = IndexIds \ Range(shownQuoteIds)
    /\ nvsShown # <<>>

\* The catalog file was scanned (and perhaps fetched from).
Scanned == pc \in {"scanned", "fetched", "notfound"}

\* The last token before position p that is not white space, 0 when none.
RECURSIVE PrevToken(_, _)
PrevToken(body, p) ==
    IF p <= 1 THEN 0
    ELSE IF body[p - 1].t # "ws" THEN p - 1
    ELSE PrevToken(body, p - 1)

\* A position where no element decodes: malformed text, or a comma or a
\* closing bracket that does not follow an element.
DecodeErrorAt(body, p) ==
    \/ body[p].t = "bad"
    \/ /\ body[p].t \in {",", "]"}
       /\ PrevToken(body, p) = 0 \/ body[PrevToken(body, p)].t # "obj"

\* The closing bracket of the array, after an element.
ArrayEndAt(body, p) ==
    /\ body[p].t = "]"
    /\ PrevToken(body, p) # 0 /\ body[PrevToken(body, p)].t = "obj"

\* The first position with a decode error or the end of the array, the
\* length of the file plus one when there is none.
RECURSIVE FirstStop(_, _)
FirstStop(body, p) ==
    IF p > Len(body) THEN p
    ELSE IF DecodeErrorAt(body, p) \/ ArrayEndAt(body, p) THEN p
    ELSE FirstStop(body, p + 1)

\* The ids other than 0 of the elements before position p, in file order.
IdsBefore(body, p) ==
    LET elems == SelectSeq(SubSeq(body, 1, p - 1),
                           LAMBDA e : e.t = "obj" /\ e.id # 0)
    IN [i \in 1..Len(elems) |-> elems[i].id]

\* C20 (SpecScan), the claim as stated: an element that does not decode is
\* skipped: the id of every well-formed element behind it, up to the end of
\* the file or the next closing bracket, is in the index.
C20_ScanSkipsBadElement ==
    (Scanned /\ card.file.exists /\ card.file.key /\ card.file.arr) =>
        \A i \in 1..Len(card.file.body) :
            LET body == card.file.body
                stop == FirstStop(body, 1)
            IN (/\ stop <= Len(body) /\ body[stop].t = "bad"
                /\ i > stop /\ body[i].t = "obj" /\ body[i].id # 0
                /\ \A k \in stop..i : body[k].t # "]")
               => body[i].id \in Range(allQuoteIds)

\* C20 amended: the scan ends at the first element that does not decode, as
\* it ends at the closing bracket: the index is the ids other than 0 of the
\* elements before that place, in file order, and holds no id of an element
\* behind it.  The scan returns true when it ended at the closing bracket
\* of the array, and otherwise when the index is not empty.
C20_ScanStopsAtDecodeError ==
    (Scanned /\ card.file.exists /\ card.file.key /\ card.file.arr) =>
        LET body == card.file.body
            stop == FirstStop(body, 1)
        IN /\ allQuoteIds = IdsBefore(body, stop)
           /\ scanOk = IF stop <= Len(body) /\ ArrayEndAt(body, stop)
                       THEN TRUE ELSE allQuoteIds # <<>>

\* C20: an element in the middle of the collection did not decode; the id
\* of the element before it is in the index, the id of the element behind
\* it is not, and the scan returned true.
C20_Witness ==
    /\ pc = "scanned"
    /\ scanOk
    /\ Len(card.file.body) = 5
    /\ card.file.body[1] = Obj(1) /\ card.file.body[3] = Bad
    /\ card.file.body[5] = Obj(2)
    /\ allQuoteIds = <<1>>

\* The positions of the elements that decoded: the objects before the place
\* where the scan ended.
DecodedAt(body) == {p \in 1..(FirstStop(body, 1) - 1) : body[p].t = "obj"}

\* C21 (SpecScan): the index never holds 0; it has one position for every
\* decoded element whose id is not 0, two elements with the same id
\* included, and the positions follow the order of the file.
C21_IndexInFileOrder ==
    (Scanned /\ card.file.exists /\ card.file.key /\ card.file.arr) =>
        LET body == card.file.body
            kept == {p \in DecodedAt(body) : body[p].id # 0}
        IN /\ 0 \notin Range(allQuoteIds)
           /\ Len(allQuoteIds) = Cardinality(kept)
           /\ \A p \in kept :
                 allQuoteIds[Cardinality({q \in kept : q <= p})] = body[p].id

\* C21: an element with id 0 was skipped and two elements with the same id
\* were both kept.
C21_Witness ==
    /\ pc = "scanned"
    /\ Len(card.file.body) = 5
    /\ card.file.body[1] = Obj(0)
    /\ card.file.body[3] = Obj(1) /\ card.file.body[5] = Obj(1)
    /\ allQuoteIds = <<1, 1>>

C23_RearmDuration ==
    [][Rearms =>
          LET remainder == IF nextQuoteEpoch - now > 0
                           THEN nextQuoteEpoch - now ELSE 0
          IN /\ remainder >= MinRemainingSec => timerWakeSec' = remainder
             /\ remainder < MinRemainingSec => timerWakeSec' = REFRESH_INTERVAL
             /\ timerWakeSec' > 0
             /\ timerWakeSec' <= REFRESH_INTERVAL]_vars

\* C23: asleep after a button press an hour before nextQuoteEpoch, the
\* timer armed for that hour.
C23_Witness ==
    /\ pc = "asleep"
    /\ nextQuoteEpoch = now + 3600
    /\ timerWakeSec = 3600
    /\ ext0Wake

\* C24: a refresh that rendered a quote goes to sleep with currentQuoteId
\* the id it committed, an id of the persisted shown list, and every
\* refresh goes to sleep with nextQuoteEpoch the current time plus the
\* refresh interval; currentQuoteId is written by the commit only, so a
\* refresh that fetched no record leaves it as it was.
C24_SessionAfterRefresh ==
    [][/\ (pc = "sleep" /\ pc' = "asleep") =>
             /\ nextQuoteEpoch' = now + REFRESH_INTERVAL
             /\ screen = "quote" =>
                   /\ currentQuoteId' = quoteId
                   /\ currentQuoteId' = lastCommitted
                   /\ isQuoteShown(DecodeShown(nvsShown'), currentQuoteId')
             /\ quoteId = 0 => currentQuoteId' = currentQuoteId
       /\ (pc \in Running /\ pc' # "off" /\ currentQuoteId' # currentQuoteId) =>
             /\ pc = "count"
             /\ currentQuoteId' = quoteId
             /\ isQuoteShown(DecodeShown(nvsShown), quoteId)]_vars

\* C24: asleep after a second successful refresh.
C24_Witness ==
    /\ pc = "asleep"
    /\ nvsTotalCnt >= 2
    /\ currentQuoteId = lastCommitted
    /\ isQuoteShown(DecodeShown(nvsShown), currentQuoteId)
    /\ nextQuoteEpoch = now + REFRESH_INTERVAL
    /\ timerWakeSec = REFRESH_INTERVAL

\* C25 (SpecFixed), the claim as stated: a power loss inside a refresh finds
\* NVS with the fetched id in the shown list and counted, or neither; and a
\* refresh that finds the stored build id different from BUILD_ID, whatever
\* part of the reset an interrupted activation had written, runs the reset
\* from its first write.
C25_PowerLossAtCheckpoint ==
    [][/\ (pc \in Running /\ pc' = "off") => uncounted = 0
       /\ (pc = "refresh" /\ pc' # "off" /\ nvsBuildId # firmware) =>
             /\ nvsTotalCnt' = 0
             /\ pc' = "reset_shown"]_vars


\* C26 (SpecLive): an activation leaves Booting for exactly one of the three
\* branches, and every activation, whatever the wake cause and the catalog
\* (absent, empty, cut short, malformed), ends in deep sleep or in the
\* low-battery halt.
C26_ActivationTerminates ==
    /\ [][(pc = "boot" /\ pc' # pc) =>
             /\ pc' \in {"lowbatt", "button", "refresh"}
             /\ pc' = "lowbatt" <=> IsCritical(batteryVoltage')
             /\ pc' = "button" <=>
                   (~IsCritical(batteryVoltage') /\ wakeupReason = "ext0")]_vars
    /\ (pc \in Running) ~> (pc \in {"asleep", "halted"})

\* C26: asleep after a refresh that showed a quote from a catalog cut short
\* inside an element.
C26_Witness ==
    /\ pc = "asleep"
    /\ card = CardCut
    /\ nvsTotalCnt >= 1
    /\ currentQuoteId = lastCommitted
    /\ timerWakeSec = REFRESH_INTERVAL


\* C27 (SpecFixed), the claim as stated: in deep sleep with the timer armed,
\* the timer fires at the retained nextQuoteEpoch, after a refresh and after
\* a button press alike.
C27_TimerFiresAtNextWake ==
    (pc = "asleep" /\ timerWakeSec >= 0) => wakeAt = nextQuoteEpoch


\* C28 (Spec): with a non-empty index displayRandomQuote reaches the draw with
\* a non-empty list of unshown ids, the exclusion leaves at least one
\* candidate, and the id drawn is a candidate, is an id of the index of this
\* activation, is not 0 and is not in the shown list at the draw.
C28_DrawInRange ==
    [][/\ (pc = "select" /\ pc' # "off" /\ allQuoteIds # <<>>) =>
             /\ pc' = "draw"
             /\ unshown' # <<>>
       /\ (pc = "draw" /\ pc' # "off") =>
             /\ allQuoteIds # <<>>
             /\ unshown # <<>>
             /\ Candidates(unshown, lastCycleQuoteId) # <<>>
             /\ unshown' = Candidates(unshown, lastCycleQuoteId)
             /\ selectedId' \in Range(unshown')
             /\ selectedId' \in Range(allQuoteIds)
             /\ selectedId' # 0
             /\ ~isQuoteShown(shownQuoteIds, selectedId')]_vars

\* C28: a draw made with one id of a three-element index already shown and
\* one candidate left after the exclusion.
C28_Witness ==
    /\ pc \in {"mark", "sleep"}
    /\ fetchCalls = 1
    /\ Len(allQuoteIds) = 3
    /\ Len(shownQuoteIds) = 1
    /\ Len(unshown) = 1
    /\ selectedId \in Range(unshown)
    /\ ~isQuoteShown(shownQuoteIds, selectedId)


NoRepeat(list) == \A i, j \in 1..Len(list) : list[i] = list[j] => i = j

\* C29 (Spec): the shown list starts empty, and every value written to the
\* NVS key "shown" decodes to a list in which no id occurs twice, whatever
\* the catalogs (duplicate ids included), cycle resets, build resets, failed
\* fetches and power losses that came before.
C29_ShownNoRepeat ==
    [][/\ pc = "off" /\ nvsBuildId = 0 => nvsShown = ""
       /\ nvsShown' # nvsShown => NoRepeat(DecodeShown(nvsShown'))
       /\ shownQuoteIds' # shownQuoteIds => NoRepeat(shownQuoteIds')]_vars

\* C29: the second id stored from a catalog that holds one id twice.
C29_Witness ==
    /\ card = CardDup
    /\ pc = "count"
    /\ nvsTotalCnt >= 2
    /\ Len(DecodeShown(nvsShown)) = 2
    /\ NoRepeat(DecodeShown(nvsShown))


\* C30 (SpecScan), the claim as stated: on one unchanged file, getQuoteFromSD
\* called with an id that scanQuoteIds put in the index returns a record, and
\* the record carries that id.
C30_IndexedIdIsFetched ==
    [][(pc = "scanned" /\ pc' # pc /\ selectedId' \in Range(allQuoteIds)) =>
          /\ pc' = "fetched"
          /\ quoteId' = selectedId']_vars

====
